---------------------------- MODULE Spec2Model ----------------------------
(***************************************************************************)
(* Model of the password generator of tullo/password                       *)
(* (src/password/generate.go).                                             *)
(*                                                                         *)
(* A Go string is a sequence of bytes (numbers 0..255); the characters of  *)
(* a string are the runes a `range` loop over it yields.  A caller runs    *)
(* Generate or GenerateWithPolicy step by step: one step per call of       *)
(* randomElement / randomInsert (each read of the random source is one     *)
(* atomic step), so that calls of several callers interleave.              *)
(***************************************************************************)
EXTENDS Integers, Sequences, FiniteSets, Bags, TLC

(***************************************************************************)
(* Bounds of the model.                                                    *)
(***************************************************************************)
\* largest `length` argument of the enumerated calls
MaxLen == 2
\* largest numDigits / numSymbols argument of the enumerated calls
MaxNum == 1
\* the random source serves the bytes 0..MaxByte and the byte 255
MaxByte == 2
\* longest byte sequence a recorded (deterministic) source holds
MaxStream == 3

(***************************************************************************)
(* Strings and characters.                                                 *)
(***************************************************************************)
Nil == "nil"

Empty == << >>

\* s[i:j] of Go (0-based, j exclusive)
Slice(s, i, j) == SubSeq(s, i + 1, j)

\* strings.Contains(s, sub)
Contains(s, sub) ==
  \E k \in 0..(Len(s) - Len(sub)) : Slice(s, k, k + Len(sub)) = sub

\* string(b) for a byte b: the UTF-8 encoding of the code point b
ByteToString(b) ==
  IF b < 128 THEN << b >> ELSE << 192 + (b \div 64), 128 + (b % 64) >>

RuneError == 65533

\* the runes of a string as `for _, ch := range s` yields them; an invalid
\* byte yields RuneError and is one byte wide.  One- and two-byte forms
\* only: no string of the model holds a lead byte of a longer form.
RECURSIVE Runes(_)
Runes(s) ==
  IF s = Empty THEN Empty
  ELSE LET b == s[1] IN
       IF b < 128 THEN << b >> \o Runes(Tail(s))
       ELSE IF b \in 194..223 /\ Len(s) >= 2 /\ s[2] \in 128..191
            THEN << (b - 192) * 64 + (s[2] - 128) >> \o Runes(Slice(s, 2, Len(s)))
            ELSE << RuneError >> \o Runes(Tail(s))

\* the bytes of a string, each with the number of times it occurs
BagOf(s) ==
  [b \in { s[k] : k \in 1..Len(s) } |-> Cardinality({ k \in 1..Len(s) : s[k] = b })]

RuneSet(s) == { Runes(s)[k] : k \in 1..Len(Runes(s)) }

(***************************************************************************)
(* The built-in alphabets (generate.go:34-46), as ASCII codes.             *)
(***************************************************************************)
LowerLetters == [k \in 1..26 |-> 96 + k]

UpperLetters == [k \in 1..26 |-> 64 + k]

Digits == [k \in 1..10 |-> 47 + k]

\* Symbols with the apostrophe and the semicolon added: all 32 punctuation
\* characters of ASCII
SymbolsAllPunctuation ==
  << 126, 33, 64, 35, 36, 37, 94, 38, 42, 40, 41, 95, 43, 96, 45, 61, 123,
     125, 124, 91, 93, 92, 58, 34, 60, 62, 63, 44, 46, 47, 39, 59 >>

\* "~!@#$%^&*()_+`-={}|[]\\:\"<>?,./"
Symbols ==
  << 126, 33, 64, 35, 36, 37, 94, 38, 42, 40, 41, 95, 43, 96, 45, 61, 123,
     125, 124, 91, 93, 92, 58, 34, 60, 62, 63, 44, 46, 47 >>

(***************************************************************************)
(* The errors (generate.go:48-64) and the error of a failed read.          *)
(***************************************************************************)
ErrExceedsTotalLength == "ErrExceedsTotalLength"

ErrLettersExceedsAvailable == "ErrLettersExceedsAvailable"

ErrDigitsExceedsAvailable == "ErrDigitsExceedsAvailable"

ErrSymbolsExceedsAvailable == "ErrSymbolsExceedsAvailable"

\* the error an io.Reader returns when it cannot supply the bytes
ErrRead == "ErrRead"

(***************************************************************************)
(* crypto/rand.Int(reader, max), as called at generate.go:274 and :284.    *)
(***************************************************************************)
RECURSIVE BitLen(_)
BitLen(n) == IF n = 0 THEN 0 ELSE 1 + BitLen(n \div 2)

\* k: the bytes one attempt reads
IntBytes(max) == (BitLen(max - 1) + 7) \div 8

\* b: the bits kept of the first byte
IntTopBits(max) ==
  LET b == BitLen(max - 1) % 8 IN IF b = 0 THEN 8 ELSE b

RECURSIVE SetBytes(_)
SetBytes(bs) ==
  IF bs = Empty THEN 0
  ELSE SetBytes(SubSeq(bs, 1, Len(bs) - 1)) * 256 + bs[Len(bs)]

\* the candidate of one attempt: bytes[0] &= (1<<b)-1; n.SetBytes(bytes)
IntCandidate(bs, max) ==
  SetBytes([bs EXCEPT ![1] = bs[1] % (2 ^ IntTopBits(max))])


(***************************************************************************)
(* The generator and its construction (generate.go:66-122).                *)
(***************************************************************************)
\* the process's secure source, rand.Reader
RandReader == 0

\* readers a GeneratorInput can name
OverrideReaders == {1, 2}

ReaderIds == {RandReader} \cup OverrideReaders

GenIds == {1, 2}

Callers == {1, 2}

ByteVals == (0..MaxByte) \cup {255}

\* the nil io.Reader
NoReader == -1

\* the nil *GeneratorInput; a non-nil pointer is the set of the struct it
\* points to
NilInput == {}

\* &GeneratorInput{...}; the empty string and the nil Reader are the zero
\* values of the fields
GeneratorInput(lower, upper, digits, symbols, reader) ==
  { [LowerLetters |-> lower, UpperLetters |-> upper, Digits |-> digits,
     Symbols |-> symbols, Reader |-> reader] }

\* the error NewStatefulGenerator returns: `return g, nil`
NewStatefulGeneratorErr(inp) == Nil

\* NewStatefulGenerator without the fallback to the built-in symbols
NewStatefulGeneratorNoSymbols(inp) ==
  LET new == GeneratorInput(Empty, Empty, Empty, Empty, NoReader)
      i == CHOOSE x \in (IF inp = NilInput THEN new ELSE inp) : TRUE
  IN [lowerLetters |-> IF i.LowerLetters = Empty THEN LowerLetters ELSE i.LowerLetters,
      upperLetters |-> IF i.UpperLetters = Empty THEN UpperLetters ELSE i.UpperLetters,
      digits       |-> IF i.Digits = Empty THEN Digits ELSE i.Digits,
      symbols      |-> i.Symbols,
      reader       |-> IF i.Reader = NoReader THEN RandReader ELSE i.Reader]

\* NewStatefulGenerator(i)
NewStatefulGenerator(inp) ==
  LET new == GeneratorInput(Empty, Empty, Empty, Empty, NoReader)
      i == CHOOSE x \in (IF inp = NilInput THEN new ELSE inp) : TRUE
  IN [lowerLetters |-> IF i.LowerLetters = Empty THEN LowerLetters ELSE i.LowerLetters,
      upperLetters |-> IF i.UpperLetters = Empty THEN UpperLetters ELSE i.UpperLetters,
      digits       |-> IF i.Digits = Empty THEN Digits ELSE i.Digits,
      symbols      |-> IF i.Symbols = Empty THEN Symbols ELSE i.Symbols,
      reader       |-> IF i.Reader = NoReader THEN RandReader ELSE i.Reader]

(***************************************************************************)
(* State.                                                                  *)
(***************************************************************************)
VARIABLES
  input,     \* input[g]: the GeneratorInput generator g was constructed from
  gens,      \* gens[g]: the StatefulGenerator g
  readers,   \* readers[r]: kind, read position and length of source r
  tape,      \* the bytes of the recorded sources, as far as they were read
  script,    \* script[p]: the calls caller p still has to make
  pc,        \* pc[p]: where caller p is
  call,      \* call[p]: the arguments of the running call
  letters,   \* letters[p]: local `letters` of Generate
  phase,     \* phase[p]: the loop of Generate the caller is in
  i,         \* i[p]: the loop counter
  ch,        \* ch[p]: the element drawn, not yet inserted
  result,    \* result[p]: local `result` of Generate
  genRet,    \* genRet[p]: what Generate returned
  ret,       \* ret[p]: what the call returned
  consumed,  \* consumed[p]: the running call has called Read on its source
  own,       \* own[p]: the bytes the running call has put into its result
  hist       \* hist[p]: the outcomes of the calls p has finished

vars == << input, gens, readers, tape, script, pc, call, letters, phase, i,
           ch, result, genRet, ret, consumed, own, hist >>

Outcome(res, err) == [res |-> res, err |-> err]

NoReturn == Outcome(Empty, "none")

\* a call: the method, the generator it is made on and the arguments
CallOf(op, g, length, numDigits, numSymbols, includeUpper, allowRepeat, needsLower, needsUpper, needsDigit, needsSymbol) ==
  [op |-> op, g |-> g, length |-> length, numDigits |-> numDigits,
   numSymbols |-> numSymbols, includeUpper |-> includeUpper,
   allowRepeat |-> allowRepeat, needsLower |-> needsLower,
   needsUpper |-> needsUpper, needsDigit |-> needsDigit,
   needsSymbol |-> needsSymbol]

NoCall == CallOf("none", 1, 0, 0, 0, FALSE, FALSE, FALSE, FALSE, FALSE, FALSE)

(***************************************************************************)
(* The random source.                                                      *)
(*   "rand"   rand.Reader: any bytes, never fails                          *)
(*   "faulty" an io.Reader that serves any bytes and may fail at any read  *)
(*   "tape"   a deterministic source: the bytes of `tape`, in order, and   *)
(*            an error once `limit` bytes were served                      *)
(* pos counts the bytes a "tape" has served, errs the reads that failed.   *)
(***************************************************************************)
Reader(kind, limit) == [kind |-> kind, pos |-> 0, limit |-> limit, errs |-> 0]

ReadOk(bs, pos, tp) == [err |-> Nil, bs |-> bs, pos |-> pos, tape |-> tp]

ReadFailed(pos) == [err |-> ErrRead, bs |-> Empty, pos |-> pos, tape |-> tape]

\* the outcomes of io.ReadFull(reader, bytes) for k = len(bytes)
ReadFull(rid, k) ==
  LET r == readers[rid]
      any == { ReadOk(bs, r.pos, tape) : bs \in [1..k -> ByteVals] }
  IN CASE r.kind = "rand"   -> any
       [] r.kind = "faulty" -> any \cup { ReadFailed(r.pos) }
       [] r.kind = "tape"   ->
            IF r.pos + k > r.limit THEN { ReadFailed(r.limit) }
            ELSE { ReadOk(bs, r.pos + k,
                          IF r.pos + k > Len(tape)
                          THEN SubSeq(tape, 1, r.pos) \o bs ELSE tape) :
                   bs \in { b \in [1..k -> ByteVals] :
                            \A j \in 1..k :
                              r.pos + j <= Len(tape) => b[j] = tape[r.pos + j] } }

\* the outcomes of one pass of rand.Int(reader, max): a value, an error, a
\* panic (max <= 0), or a rejected candidate, after which rand.Int reads again
RandInt(rid, max) ==
  LET r == readers[rid] IN
  IF max <= 0 THEN { [kind |-> "panic", n |-> 0, pos |-> r.pos, tape |-> tape, read |-> FALSE] }
  ELSE IF BitLen(max - 1) = 0
  THEN { [kind |-> "value", n |-> 0, pos |-> r.pos, tape |-> tape, read |-> FALSE] }
  ELSE { IF o.err # Nil
         THEN [kind |-> "error", n |-> 0, pos |-> o.pos, tape |-> o.tape, read |-> TRUE]
         ELSE IF IntCandidate(o.bs, max) < max
         THEN [kind |-> "value", n |-> IntCandidate(o.bs, max), pos |-> o.pos,
               tape |-> o.tape, read |-> TRUE]
         ELSE [kind |-> "again", n |-> 0, pos |-> o.pos, tape |-> o.tape, read |-> TRUE] :
         o \in ReadFull(rid, IntBytes(max)) }

(***************************************************************************)
(* Generate (generate.go:132-212).                                         *)
(***************************************************************************)
\* letters := g.lowerLetters; if includeUpper { letters += g.upperLetters }
Letters(g, includeUpper) ==
  IF includeUpper THEN g.lowerLetters \o g.upperLetters ELSE g.lowerLetters

\* chars := length - numDigits - numSymbols
Chars(c) == c.length - c.numDigits - c.numSymbols

\* Validate with the digits check moved before the letters check
ValidateDigitsFirst(g, c) ==
  IF Chars(c) < 0 THEN ErrExceedsTotalLength
  ELSE IF ~c.allowRepeat /\ c.numDigits > Len(g.digits)
  THEN ErrDigitsExceedsAvailable
  ELSE IF ~c.allowRepeat /\ Chars(c) > Len(Letters(g, c.includeUpper))
  THEN ErrLettersExceedsAvailable
  ELSE IF ~c.allowRepeat /\ c.numSymbols > Len(g.symbols)
  THEN ErrSymbolsExceedsAvailable
  ELSE Nil

\* the four checks, in the order of the code; Nil when all pass
Validate(g, c) ==
  IF Chars(c) < 0 THEN ErrExceedsTotalLength
  ELSE IF ~c.allowRepeat /\ Chars(c) > Len(Letters(g, c.includeUpper))
  THEN ErrLettersExceedsAvailable
  ELSE IF ~c.allowRepeat /\ c.numDigits > Len(g.digits)
  THEN ErrDigitsExceedsAvailable
  ELSE IF ~c.allowRepeat /\ c.numSymbols > Len(g.symbols)
  THEN ErrSymbolsExceedsAvailable
  ELSE Nil

\* where control is once the counter of loop ph stands at k: in that loop,
\* in the first later loop that has an iteration to run, or at the return
LoopPoint(ph, k, c) ==
  LET digs == IF 0 < c.numDigits THEN [phase |-> "digits", i |-> 0, fin |-> FALSE]
              ELSE IF 0 < c.numSymbols THEN [phase |-> "symbols", i |-> 0, fin |-> FALSE]
              ELSE [phase |-> "symbols", i |-> 0, fin |-> TRUE]
      syms == IF 0 < c.numSymbols THEN [phase |-> "symbols", i |-> 0, fin |-> FALSE]
              ELSE [phase |-> "symbols", i |-> 0, fin |-> TRUE]
  IN CASE ph = "letters" ->
            IF k < Chars(c) THEN [phase |-> ph, i |-> k, fin |-> FALSE] ELSE digs
       [] ph = "digits" ->
            IF k < c.numDigits THEN [phase |-> ph, i |-> k, fin |-> FALSE] ELSE syms
       [] ph = "symbols" ->
            [phase |-> ph, i |-> k, fin |-> ~(k < c.numSymbols)]

\* the alphabet the loop ph draws from
PhaseAlphabet(p, ph) ==
  CASE ph = "letters" -> letters[p]
    [] ph = "digits"  -> gens[call[p].g].digits
    [] ph = "symbols" -> gens[call[p].g].symbols

\* s[0:i] + val + s[i:]
Splice(s, val, n) == Slice(s, 0, n) \o val \o Slice(s, n, Len(s))

\* SourceOf reading the process's source in place of the generator's
SourceOfProcess(p) == RandReader

\* g.reader, the source the draws of a call read
SourceOf(p) == gens[call[p].g].reader

\* StoreResult on a `result` that all callers share
StoreResultShared(p, res) == [q \in Callers |-> res]

\* result = res: `result` is a local of the call
StoreResult(p, res) == [result EXCEPT ![p] = res]

\* a caller starts the next call of its script
Call(p) ==
  /\ pc[p] \in {"idle", "done"}
  /\ script[p] # << >>
  /\ call' = [call EXCEPT ![p] = Head(script[p])]
  /\ script' = [script EXCEPT ![p] = Tail(script[p])]
  /\ pc' = [pc EXCEPT ![p] = "enter"]
  /\ consumed' = [consumed EXCEPT ![p] = FALSE]
  /\ ret' = [ret EXCEPT ![p] = NoReturn]
  /\ genRet' = [genRet EXCEPT ![p] = NoReturn]
  /\ result' = [result EXCEPT ![p] = Empty]
  /\ letters' = [letters EXCEPT ![p] = Empty]
  /\ ch' = [ch EXCEPT ![p] = Empty]
  /\ phase' = [phase EXCEPT ![p] = "letters"]
  /\ i' = [i EXCEPT ![p] = 0]
  /\ own' = [own EXCEPT ![p] = EmptyBag]
  /\ UNCHANGED << input, gens, readers, tape, hist >>

\* Generate up to the first loop: lines 133-155
EnterLocals(p) ==
  /\ pc[p] = "enter"
  /\ LET c == call[p]
         g == gens[c.g]
         e == Validate(g, c)
         at == LoopPoint("letters", 0, c)
     IN /\ letters' = [letters EXCEPT ![p] = Letters(g, c.includeUpper)]
        /\ result' = [result EXCEPT ![p] = Empty]
        /\ ch' = [ch EXCEPT ![p] = Empty]
        /\ own' = [own EXCEPT ![p] = EmptyBag]
        /\ IF e # Nil
           THEN /\ genRet' = [genRet EXCEPT ![p] = Outcome(Empty, e)]
                /\ pc' = [pc EXCEPT ![p] = "returned"]
                /\ UNCHANGED << phase, i >>
           ELSE /\ phase' = [phase EXCEPT ![p] = at.phase]
                /\ i' = [i EXCEPT ![p] = at.i]
                /\ IF at.fin
                   THEN /\ genRet' = [genRet EXCEPT ![p] = Outcome(Empty, Nil)]
                        /\ pc' = [pc EXCEPT ![p] = "returned"]
                   ELSE /\ genRet' = [genRet EXCEPT ![p] = NoReturn]
                        /\ pc' = [pc EXCEPT ![p] = "element"]
  /\ UNCHANGED << input, gens, script, call, ret, hist >>

\* Enter with a read of the source ahead of the checks
EnterAfterRead(p) ==
  /\ EnterLocals(p)
  /\ consumed' = [consumed EXCEPT ![p] = TRUE]
  /\ UNCHANGED << readers, tape >>

\* the checks read nothing: the source is as it was
Enter(p) ==
  /\ EnterLocals(p)
  /\ UNCHANGED << readers, tape, consumed >>

\* the effect of a pass of rand.Int on the source
Reads(p, rid, o) ==
  /\ readers' = [readers EXCEPT ![rid].pos = o.pos,
                                ![rid].errs = IF o.kind = "error" THEN @ + 1 ELSE @]
  /\ tape' = o.tape
  /\ consumed' = [consumed EXCEPT ![p] = consumed[p] \/ o.read]

\* randomElement and the repeat check: lines 159-167 (177-185, 195-203)
Element(p) ==
  /\ pc[p] = "element"
  /\ LET c == call[p]
         rid == SourceOf(p)
         s == PhaseAlphabet(p, phase[p])
     IN \E o \in RandInt(rid, Len(s)) :
          /\ Reads(p, rid, o)
          /\ CASE o.kind = "panic" ->
                    /\ pc' = [pc EXCEPT ![p] = "panicked"]
                    /\ UNCHANGED << ch, genRet >>
               [] o.kind = "error" ->
                    /\ genRet' = [genRet EXCEPT ![p] = Outcome(Empty, ErrRead)]
                    /\ pc' = [pc EXCEPT ![p] = "returned"]
                    /\ UNCHANGED ch
               [] o.kind = "again" ->
                    UNCHANGED << pc, ch, genRet >>
               [] o.kind = "value" ->
                    LET e == ByteToString(s[o.n + 1]) IN
                    IF ~c.allowRepeat /\ Contains(result[p], e)
                    THEN UNCHANGED << pc, ch, genRet >>
                    ELSE /\ ch' = [ch EXCEPT ![p] = e]
                         /\ pc' = [pc EXCEPT ![p] = "insert"]
                         /\ UNCHANGED genRet
  /\ UNCHANGED << input, gens, script, call, letters, phase, i, result, ret,
                  own, hist >>

\* randomInsert and the end of the loop body: lines 169-173 (187-191,
\* 205-209), then the loop condition and, after the last loop, line 211
Insert(p) ==
  /\ pc[p] = "insert"
  /\ LET c == call[p]
         rid == SourceOf(p)
         s == result[p]
         outs == IF s = Empty
                 THEN { [kind |-> "first", n |-> 0, pos |-> readers[rid].pos,
                         tape |-> tape, read |-> FALSE] }
                 ELSE RandInt(rid, Len(s) + 1)
     IN \E o \in outs :
          /\ Reads(p, rid, o)
          /\ CASE o.kind = "panic" ->
                    /\ pc' = [pc EXCEPT ![p] = "panicked"]
                    /\ UNCHANGED << result, phase, i, genRet, own >>
               [] o.kind = "error" ->
                    /\ genRet' = [genRet EXCEPT ![p] = Outcome(Empty, ErrRead)]
                    /\ pc' = [pc EXCEPT ![p] = "returned"]
                    /\ UNCHANGED << result, phase, i, own >>
               [] o.kind = "again" ->
                    UNCHANGED << pc, result, phase, i, genRet, own >>
               [] o.kind \in {"first", "value"} ->
                    LET res == IF o.kind = "first" THEN ch[p]
                               ELSE Splice(s, ch[p], o.n)
                        at == LoopPoint(phase[p], i[p] + 1, c)
                    IN /\ result' = StoreResult(p, res)
                       /\ own' = [own EXCEPT ![p] = @ (+) BagOf(ch[p])]
                       /\ phase' = [phase EXCEPT ![p] = at.phase]
                       /\ i' = [i EXCEPT ![p] = at.i]
                       /\ IF at.fin
                          THEN /\ genRet' = [genRet EXCEPT ![p] = Outcome(res, Nil)]
                               /\ pc' = [pc EXCEPT ![p] = "returned"]
                          ELSE /\ pc' = [pc EXCEPT ![p] = "element"]
                               /\ UNCHANGED genRet
  /\ UNCHANGED << input, gens, script, call, letters, ch, ret, hist >>

(***************************************************************************)
(* GenerateWithPolicy (generate.go:224-237) and isLegalPassword            *)
(* (generate.go:291-330).                                                  *)
(***************************************************************************)
\* ".*[[:lower:]].*"
containsLower(s) == \E r \in RuneSet(s) : r \in 97..122

\* ".*[[:upper:]].*"
containsUpper(s) == \E r \in RuneSet(s) : r \in 65..90

\* ".*[[:digit:]].*"
containsDigit(s) == \E r \in RuneSet(s) : r \in 48..57

\* containsSymbol with the digits left out of the class: `[^a-zA-Z]+`
containsSymbolNotLetter(s) ==
  \E r \in RuneSet(s) : r \notin (97..122) \cup (65..90)

\* `[^a-zA-Z0-9]+`
containsSymbol(s) ==
  \E r \in RuneSet(s) : r \notin (97..122) \cup (65..90) \cup (48..57)

\* isLegalPassword without the check of needsSymbol
isLegalPasswordThreeChecks(s, needsLower, needsUpper, needsDigit, needsSymbol) ==
  IF needsLower /\ ~containsLower(s) THEN FALSE
  ELSE IF needsUpper /\ ~containsUpper(s) THEN FALSE
  ELSE IF needsDigit /\ ~containsDigit(s) THEN FALSE
  ELSE TRUE

isLegalPassword(s, needsLower, needsUpper, needsDigit, needsSymbol) ==
  IF needsLower /\ ~containsLower(s) THEN FALSE
  ELSE IF needsUpper /\ ~containsUpper(s) THEN FALSE
  ELSE IF needsDigit /\ ~containsDigit(s) THEN FALSE
  ELSE IF needsSymbol /\ ~containsSymbol(s) THEN FALSE
  ELSE TRUE

\* the entry the finished call leaves in the caller's history: its outcome
\* and the read position of its source
Finished(p, out) ==
  /\ ret' = [ret EXCEPT ![p] = out]
  /\ pc' = [pc EXCEPT ![p] = "done"]
  /\ hist' = [hist EXCEPT ![p] =
                Append(@, [res |-> out.res, err |-> out.err,
                           pos |-> readers[SourceOf(p)].pos])]

\* PolicyStep that calls Generate again when Generate failed
PolicyStepRetrying(c, r) ==
  IF r.err # Nil THEN "again"
  ELSE IF isLegalPassword(r.res, c.needsLower, c.needsUpper, c.needsDigit,
                          c.needsSymbol)
  THEN "break"
  ELSE "again"

\* the body of the loop of GenerateWithPolicy after Generate returned r:
\* lines 228-234
PolicyStep(c, r) ==
  IF r.err # Nil THEN "return"
  ELSE IF isLegalPassword(r.res, c.needsLower, c.needsUpper, c.needsDigit,
                          c.needsSymbol)
  THEN "break"
  ELSE "again"

\* Generate has returned: the call is over, or GenerateWithPolicy takes the
\* result (lines 227-236) and calls Generate again when the password is not
\* legal
Finish(p) ==
  /\ pc[p] = "returned"
  /\ LET c == call[p]
         r == genRet[p]
     IN IF c.op = "Generate" THEN Finished(p, r)
        ELSE CASE PolicyStep(c, r) = "return" -> Finished(p, Outcome(Empty, r.err))
               [] PolicyStep(c, r) = "break"  -> Finished(p, Outcome(r.res, Nil))
               [] PolicyStep(c, r) = "again"  ->
                    /\ pc' = [pc EXCEPT ![p] = "enter"]
                    /\ UNCHANGED << ret, hist >>
  /\ UNCHANGED << input, gens, readers, tape, script, call, letters, phase,
                  i, ch, result, genRet, consumed, own >>

Next ==
  \E p \in Callers :
    \/ Call(p)
    \/ Enter(p)
    \/ Element(p)
    \/ Insert(p)
    \/ Finish(p)

(***************************************************************************)
(* The configurations and calls the model enumerates.                      *)
(***************************************************************************)
\* "abc", "AB", "01", "!@"
AsciiInput(rd) ==
  GeneratorInput(<< 97, 98, 99 >>, << 65, 66 >>, << 48, 49 >>, << 33, 64 >>, rd)

\* alphabets that repeat a character and share characters:
\* "aab", "Ab", "a1", "1!"
OverlapInput(rd) ==
  GeneratorInput(<< 97, 97, 98 >>, << 65, 98 >>, << 97, 49 >>, << 49, 33 >>, rd)

\* only the lowercase letters are overridden, with "é" (U+00E9, the bytes
\* C3 A9)
AccentInput(rd) ==
  GeneratorInput(<< 195, 169 >>, Empty, Empty, Empty, rd)

\* no alphabet is overridden
DefaultInput(rd) == GeneratorInput(Empty, Empty, Empty, Empty, rd)

InputsWith(rd) ==
  { AsciiInput(rd), OverlapInput(rd), AccentInput(rd), DefaultInput(rd) }

Generate(g, length, numDigits, numSymbols, includeUpper, allowRepeat) ==
  CallOf("Generate", g, length, numDigits, numSymbols, includeUpper,
         allowRepeat, FALSE, FALSE, FALSE, FALSE)

GenerateWithPolicy(g, length, numDigits, numSymbols, includeUpper, allowRepeat, needsLower, needsUpper, needsDigit, needsSymbol) ==
  CallOf("GenerateWithPolicy", g, length, numDigits, numSymbols, includeUpper,
         allowRepeat, needsLower, needsUpper, needsDigit, needsSymbol)

\* the calls of the documentation and of the tests that end in bounded
\* space with the bytes of ByteVals
DocCalls(g) ==
  { Generate(g, 64, 10, 10, FALSE, FALSE),
    Generate(g, 0, 1, 0, TRUE, FALSE),
    Generate(g, 0, 0, 1, TRUE, FALSE),
    Generate(g, 1000, 0, 0, TRUE, FALSE),
    Generate(g, 52, 11, 0, TRUE, FALSE),
    Generate(g, 52, 0, 31, TRUE, FALSE),
    Generate(g, 52, 10, 30, FALSE, FALSE),
    GenerateWithPolicy(g, 20, 2, 2, TRUE, FALSE, TRUE, TRUE, TRUE, TRUE) }

GenerateCalls(g) ==
  { Generate(g, l, d, s, u, r) :
      l \in 0..MaxLen, d \in 0..MaxNum, s \in 0..MaxNum,
      u \in BOOLEAN, r \in BOOLEAN }

\* calls with a negative argument
NegativeCalls(g) ==
  { Generate(g, l, d, s, FALSE, r) :
      l \in (-1)..1, d \in (-1)..0, s \in (-1)..0, r \in BOOLEAN }

\* the policies: no class, one class, every class
Policies ==
  { << FALSE, FALSE, FALSE, FALSE >>, << TRUE, FALSE, FALSE, FALSE >>,
    << FALSE, TRUE, FALSE, FALSE >>, << FALSE, FALSE, TRUE, FALSE >>,
    << FALSE, FALSE, FALSE, TRUE >>, << TRUE, TRUE, TRUE, TRUE >>,
    << FALSE, FALSE, TRUE, TRUE >> }

\* the calls with a policy: the counts fit the length
PolicyCalls(g) ==
  { c \in { GenerateWithPolicy(g, l, d, s, u, r, f[1], f[2], f[3], f[4]) :
              l \in 1..MaxLen, d \in 0..MaxNum, s \in 0..MaxNum,
              u \in BOOLEAN, r \in BOOLEAN, f \in Policies } :
      Chars(c) >= 0 }

\* the calls of the tests that fail a check, made with a policy
PolicyErrorCalls(g) ==
  { GenerateWithPolicy(g, 0, 1, 0, TRUE, FALSE, FALSE, FALSE, TRUE, FALSE),
    GenerateWithPolicy(g, 1000, 0, 0, TRUE, FALSE, TRUE, FALSE, FALSE, FALSE),
    GenerateWithPolicy(g, 52, 11, 0, TRUE, FALSE, FALSE, FALSE, TRUE, FALSE),
    GenerateWithPolicy(g, 52, 0, 31, TRUE, FALSE, FALSE, FALSE, FALSE, TRUE) }

SeqCalls(g) ==
  DocCalls(g) \cup GenerateCalls(g) \cup NegativeCalls(g) \cup PolicyCalls(g)
    \cup PolicyErrorCalls(g)

\* the state after construction: generators made from the inputs inp, the
\* sources rds, and the calls each caller is to make
InitWith(inp, rds, scr) ==
  /\ input = inp
  /\ gens = [g \in GenIds |-> NewStatefulGenerator(inp[g])]
  /\ readers = rds
  /\ tape = Empty
  /\ script = scr
  /\ pc = [p \in Callers |-> "idle"]
  /\ call = [p \in Callers |-> NoCall]
  /\ letters = [p \in Callers |-> Empty]
  /\ phase = [p \in Callers |-> "letters"]
  /\ i = [p \in Callers |-> 0]
  /\ ch = [p \in Callers |-> Empty]
  /\ result = [p \in Callers |-> Empty]
  /\ genRet = [p \in Callers |-> NoReturn]
  /\ ret = [p \in Callers |-> NoReturn]
  /\ consumed = [p \in Callers |-> FALSE]
  /\ own = [p \in Callers |-> EmptyBag]
  /\ hist = [p \in Callers |-> << >>]

FaultyReaders ==
  [r \in ReaderIds |-> IF r = RandReader THEN Reader("rand", 0)
                       ELSE Reader("faulty", 0)]

\* one caller, one generator: every enumerated call on the generator of the
\* nil input (the built-in alphabets and rand.Reader) and on generators with
\* a source of their own, which serves any bytes and may fail
Init ==
  \E inp \in {NilInput} \cup InputsWith(1) :
  \E c \in SeqCalls(1) :
    InitWith([g \in GenIds |-> inp], FaultyReaders,
             [p \in Callers |-> IF p = 1 THEN << c >> ELSE << >>])

Spec == Init /\ [][Next]_vars

\* the calls two concurrent callers make
ConcCalls(g) ==
  { Generate(g, MaxLen, 1, 0, FALSE, FALSE),
    Generate(g, 2, 0, 1, TRUE, TRUE),
    Generate(g, 1, -1, 1, FALSE, TRUE),
    Generate(g, 52, 11, 0, TRUE, FALSE),
    GenerateWithPolicy(g, 2, 1, 0, FALSE, FALSE, TRUE, FALSE, TRUE, FALSE) }

\* two callers share one generator and its source; the first makes one
\* call, the second makes one call or none
InitConc ==
  \E inp \in { AsciiInput(1), OverlapInput(NoReader), AccentInput(1) } :
  \E c1 \in ConcCalls(1) :
  \E s2 \in { << >> } \cup { << c2 >> : c2 \in ConcCalls(1) } :
    InitWith([g \in GenIds |-> inp], FaultyReaders,
             [p \in Callers |-> IF p = 1 THEN << c1 >> ELSE s2])

SpecConc == InitConc /\ [][Next]_vars

\* the calls made on the two generators fed the same bytes
DetCalls(g) ==
  { Generate(g, MaxLen, 1, 0, FALSE, FALSE),
    Generate(g, MaxLen, 0, 1, TRUE, TRUE),
    Generate(g, 1, 0, 0, FALSE, TRUE),
    GenerateWithPolicy(g, 1, 1, 0, FALSE, FALSE, FALSE, FALSE, TRUE, FALSE) }

\* one call, or the same call twice
DetScripts(g) ==
  { << c >> : c \in DetCalls(g) } \cup { << c, c >> : c \in DetCalls(g) }

TapeReaders(limit) ==
  [r \in ReaderIds |-> IF r = RandReader THEN Reader("rand", 0)
                       ELSE Reader("tape", limit)]

\* the same script with its calls made on the generator g
OnGenerator(scr, g) == [k \in 1..Len(scr) |-> [scr[k] EXCEPT !.g = g]]

\* two generators of the same configuration, each with a source of its own
\* that serves the same byte sequence; caller g makes the calls on
\* generator g, and both make the same calls
InitDet ==
  \E a \in { "ascii", "accent" } :
  \E limit \in {MaxStream} :
  \E scr \in DetScripts(1) :
    InitWith([g \in GenIds |-> CASE a = "ascii"  -> AsciiInput(g)
                                 [] a = "accent" -> AccentInput(g)],
             TapeReaders(limit),
             [p \in Callers |-> OnGenerator(scr, p)])

SpecDet == InitDet /\ [][Next]_vars

\* calls of GenerateWithPolicy that ask for a symbol and for no symbols
UnsatisfiableCalls(g) ==
  { c \in { GenerateWithPolicy(g, l, d, 0, u, r, FALSE, FALSE, FALSE, TRUE) :
              l \in 1..MaxLen, d \in 0..MaxNum, u \in BOOLEAN, r \in BOOLEAN } :
      Chars(c) >= 0 }

\* the calls made with a source that never fails: Generate without
\* repeats, one call that asks for as many letters as "aab" is long, calls
\* with a policy no password meets and one with a policy a password meets
LiveCalls(g) ==
  { c \in GenerateCalls(g) : ~c.allowRepeat /\ ~c.includeUpper }
    \cup { Generate(g, 3, 0, 0, FALSE, FALSE) }
    \cup UnsatisfiableCalls(g)
    \cup { GenerateWithPolicy(g, 2, 0, 1, FALSE, FALSE, TRUE, FALSE, FALSE, TRUE) }

\* one caller makes one call on a generator whose source is rand.Reader
InitLive ==
  \E inp \in { NilInput, AsciiInput(NoReader), OverlapInput(NoReader) } :
  \E c \in LiveCalls(1) :
    InitWith([g \in GenIds |-> inp], FaultyReaders,
             [p \in Callers |-> IF p = 1 THEN << c >> ELSE << >>])

\* a caller that can take a step takes it, and the source is fair: a draw
\* that can be accepted again and again is accepted in the end, by the
\* repeat check (Element) and by rand.Int's rejection loop (Insert)
Fairness ==
  \A p \in Callers :
    /\ WF_vars(Call(p))
    /\ WF_vars(Enter(p))
    /\ WF_vars(Element(p))
    /\ WF_vars(Insert(p))
    /\ WF_vars(Finish(p))
    /\ SF_vars(Element(p) /\ pc'[p] = "insert")
    /\ SF_vars(Insert(p) /\ pc'[p] # "insert")

SpecLive == InitLive /\ [][Next]_vars /\ Fairness

(***************************************************************************)
(* Notions the properties use.                                             *)
(***************************************************************************)
Done(p) == pc[p] = "done"

\* the call of p is over and returned a string and no error
Succeeded(p, op) == Done(p) /\ call[p].op = op /\ ret[p].err = Nil

\* the number of characters of a string
NumChars(s) == Len(Runes(s))

\* no character occurs twice in the string
NoRepeat(s) ==
  \A j, k \in 1..NumChars(s) : j # k => Runes(s)[j] # Runes(s)[k]

\* the characters of s split into nl characters of the alphabet la, nd of
\* da and ns of sa
ComposedOf(s, nl, la, nd, da, ns, sa) ==
  \E f \in [1..NumChars(s) -> {"letter", "digit", "symbol"}] :
    /\ Cardinality({ k \in 1..NumChars(s) : f[k] = "letter" }) = nl
    /\ Cardinality({ k \in 1..NumChars(s) : f[k] = "digit" }) = nd
    /\ Cardinality({ k \in 1..NumChars(s) : f[k] = "symbol" }) = ns
    /\ \A k \in 1..NumChars(s) :
         Runes(s)[k] \in RuneSet(CASE f[k] = "letter" -> la
                                   [] f[k] = "digit"  -> da
                                   [] f[k] = "symbol" -> sa)

\* the composition Generate is to deliver for the call c on the generator g
Composition(s, c, g) ==
  ComposedOf(s, Chars(c), Letters(g, c.includeUpper),
             c.numDigits, g.digits, c.numSymbols, g.symbols)

PreconditionErrors ==
  { ErrExceedsTotalLength, ErrLettersExceedsAvailable,
    ErrDigitsExceedsAvailable, ErrSymbolsExceedsAvailable }

(***************************************************************************)
(* C1.  A Generate call with numDigits + numSymbols <= length that returns *)
(* no error returns a string of exactly `length` characters, whatever the  *)
(* signed arguments are.                                                   *)
(* Violated: the counts are not checked for their sign.  Generate(0, -1,   *)
(* 0, false, true) passes the checks with chars = 1 and returns one        *)
(* letter; Generate(-1, -1, 0, false, true) returns the empty string.      *)
(***************************************************************************)
C1_ExactLength ==
  \A p \in Callers :
    ( /\ Succeeded(p, "Generate")
      /\ call[p].numDigits + call[p].numSymbols <= call[p].length )
    => NumChars(ret[p].res) = call[p].length

(***************************************************************************)
(* C2.  A string Generate returns for allowRepeat = false holds no         *)
(* character twice, whatever the alphabets are.                            *)
(* Violated with the lowercase alphabet "é": the elements drawn are the    *)
(* encodings of the alphabet's bytes, and an insertion between the two     *)
(* bytes of one leaves two invalid bytes, two characters U+FFFD.           *)
(***************************************************************************)
C2_NoRepeats ==
  \A p \in Callers :
    (Succeeded(p, "Generate") /\ ~call[p].allowRepeat) => NoRepeat(ret[p].res)

(***************************************************************************)
(* C3.  A string Generate returns is made of length-numDigits-numSymbols   *)
(* characters of the letter alphabet, numDigits characters of the digits   *)
(* alphabet and numSymbols characters of the symbols alphabet.             *)
(* Violated with the lowercase alphabet "é": Generate(1, 0, 0, false,      *)
(* true) returns "Ã" or "©", neither a character of an alphabet.  Violated *)
(* with a negative count too: Generate(0, -1, 0, false, true) returns one  *)
(* letter, and no string holds -1 digits.                                  *)
(***************************************************************************)
C3_Composition ==
  \A p \in Callers :
    Succeeded(p, "Generate") => Composition(ret[p].res, call[p], gens[call[p].g])

(***************************************************************************)
(* C4.  The documented call Generate(64, 10, 10, false, false) on the      *)
(* default configuration returns no error and a password of 64 characters  *)
(* with 10 digits, 10 symbols and no repeated character.                   *)
(* Violated: 44 letters are asked of the 26 lowercase letters, and the     *)
(* call returns ErrLettersExceedsAvailable.                                *)
(***************************************************************************)
C4_DocumentedCall ==
  \A p \in Callers :
    ( /\ Done(p)
      /\ call[p] = Generate(call[p].g, 64, 10, 10, FALSE, FALSE)
      /\ gens[call[p].g] = NewStatefulGenerator(NilInput) )
    => /\ ret[p].err = Nil
       /\ NumChars(ret[p].res) = 64
       /\ Composition(ret[p].res, call[p], gens[call[p].g])
       /\ NoRepeat(ret[p].res)

\* the checks of the running Generate are behind the caller
Checked(p) == pc[p] \in {"element", "insert", "returned", "done"}

\* the error of the checks of the running Generate, Nil when it has none
CheckError(p) ==
  IF genRet[p].err \in PreconditionErrors THEN genRet[p].err ELSE Nil

(***************************************************************************)
(* C5.  The checks of Generate are a decision in a fixed order.  With      *)
(* chars = length - numDigits - numSymbols and the sizes as the code       *)
(* measures them (len, in bytes): ErrExceedsTotalLength iff chars < 0;     *)
(* else, for allowRepeat = false only, ErrLettersExceedsAvailable iff      *)
(* chars exceeds the letters, else ErrDigitsExceedsAvailable iff numDigits *)
(* exceeds the digits, else ErrSymbolsExceedsAvailable iff numSymbols      *)
(* exceeds the symbols.  The string returned with such an error is empty,  *)
(* and a call none of whose checks fails gets none of these errors.        *)
(***************************************************************************)
C5_ValidationOrder ==
  \A p \in Callers :
    Checked(p) =>
      LET c == call[p]
          g == gens[c.g]
          chars == c.length - c.numDigits - c.numSymbols
          nLetters == Len(g.lowerLetters)
                        + (IF c.includeUpper THEN Len(g.upperLetters) ELSE 0)
          e == CheckError(p)
      IN /\ (e = ErrExceedsTotalLength) <=> (chars < 0)
         /\ (e = ErrLettersExceedsAvailable) <=>
              (chars >= 0 /\ ~c.allowRepeat /\ chars > nLetters)
         /\ (e = ErrDigitsExceedsAvailable) <=>
              ( /\ chars >= 0 /\ ~c.allowRepeat /\ chars <= nLetters
                /\ c.numDigits > Len(g.digits) )
         /\ (e = ErrSymbolsExceedsAvailable) <=>
              ( /\ chars >= 0 /\ ~c.allowRepeat /\ chars <= nLetters
                /\ c.numDigits <= Len(g.digits)
                /\ c.numSymbols > Len(g.symbols) )
         /\ (e # Nil) => genRet[p].res = Empty
         /\ (Done(p) /\ ret[p].err \in PreconditionErrors) =>
              (ret[p].res = Empty /\ ret[p].err = e)

\* a call that fails two checks returned the error of the first
C5_Witness ==
  \E p \in Callers :
    /\ Done(p)
    /\ ret[p] = Outcome(Empty, ErrLettersExceedsAvailable)
    /\ call[p].numDigits > Len(gens[call[p].g].digits)

(***************************************************************************)
(* C6.  When Generate or GenerateWithPolicy returns one of the four        *)
(* errors of the checks, the call has not called Read on the random source *)
(* and has built no part of a result.                                      *)
(***************************************************************************)
C6_NoReadBeforeError ==
  \A p \in Callers :
    ( \/ pc[p] \in {"returned", "done"} /\ genRet[p].err \in PreconditionErrors
      \/ Done(p) /\ ret[p].err \in PreconditionErrors )
    => /\ ~consumed[p]
       /\ result[p] = Empty
       /\ own[p] = EmptyBag
       /\ readers[SourceOf(p)].errs = 0

\* GenerateWithPolicy returned the error of the last check
C6_Witness ==
  \E p \in Callers :
    /\ Done(p)
    /\ call[p].op = "GenerateWithPolicy"
    /\ ret[p] = Outcome(Empty, ErrSymbolsExceedsAvailable)

\* the string has a character of the set
HasCharIn(s, set) == \E k \in 1..NumChars(s) : Runes(s)[k] \in set

\* a-z, A-Z and 0-9
LowerClass == 97..122

UpperClass == 65..90

DigitClass == 48..57

(***************************************************************************)
(* C7.  A string GenerateWithPolicy returns without error is the string a  *)
(* successful Generate call with the same arguments returned, and it has   *)
(* a lowercase letter if needsLower, an uppercase letter if needsUpper, a  *)
(* digit if needsDigit and a character outside [A-Za-z0-9] if needsSymbol. *)
(***************************************************************************)
C7_PolicyHolds ==
  \A p \in Callers :
    Succeeded(p, "GenerateWithPolicy") =>
      /\ genRet[p].err = Nil
      /\ ret[p].res = genRet[p].res
      /\ call[p].needsLower => HasCharIn(ret[p].res, LowerClass)
      /\ call[p].needsUpper => HasCharIn(ret[p].res, UpperClass)
      /\ call[p].needsDigit => HasCharIn(ret[p].res, DigitClass)
      /\ call[p].needsSymbol =>
           \E k \in 1..NumChars(ret[p].res) :
             Runes(ret[p].res)[k] \notin LowerClass \cup UpperClass \cup DigitClass

\* a password was returned for a policy that asks for a digit and a symbol
C7_Witness ==
  \E p \in Callers :
    /\ Succeeded(p, "GenerateWithPolicy")
    /\ call[p].needsDigit /\ call[p].needsSymbol
    /\ ret[p].res # Empty

\* the reads that have failed so far
TotalErrs(rs) == rs[0].errs + rs[1].errs + rs[2].errs

\* a step in which a read fails is a step of a caller that draws, and takes
\* it to the return of Generate with the error and the empty string
C8_FailedRead ==
  (TotalErrs(readers') # TotalErrs(readers)) =>
    /\ TotalErrs(readers') = TotalErrs(readers) + 1
    /\ \E p \in Callers :
         /\ pc[p] \in {"element", "insert"}
         /\ pc'[p] = "returned"
         /\ genRet'[p] = Outcome(Empty, ErrRead)

\* the step after Generate returned an error ends the call with that error
\* and the empty string, and reads nothing
C8_ErrorReturned ==
  \A p \in Callers :
    (pc[p] = "returned" /\ genRet[p].err # Nil /\ pc'[p] # pc[p]) =>
      /\ pc'[p] = "done"
      /\ ret'[p] = Outcome(Empty, genRet[p].err)
      /\ readers' = readers

(***************************************************************************)
(* C8.  A read of the random source that fails during the draw of an       *)
(* element or of an insert position ends Generate at once: it returns the  *)
(* error and the empty string, and no second read is made.  When Generate  *)
(* returned an error, precondition or random source, GenerateWithPolicy    *)
(* returns that error and the empty string without another attempt and     *)
(* without a read.                                                         *)
(***************************************************************************)
C8_ErrorsEndTheCall ==
  /\ [][C8_FailedRead /\ C8_ErrorReturned]_vars
  /\ [](\A p \in Callers : (Done(p) /\ ret[p].err # Nil) => ret[p].res = Empty)

\* GenerateWithPolicy returned the error of a read that failed after a part
\* of the result was built
C8_Witness ==
  \E p \in Callers :
    /\ Done(p)
    /\ call[p].op = "GenerateWithPolicy"
    /\ ret[p] = Outcome(Empty, ErrRead)
    /\ result[p] # Empty

(***************************************************************************)
(* C9.  Two generators of the same configuration whose sources serve the   *)
(* same byte sequence return, call by call of the same sequence of calls,  *)
(* the same string and the same error, and have read the same number of    *)
(* bytes after each call.                                                  *)
(***************************************************************************)
C9_Deterministic ==
  \A k \in 1..Len(hist[1]) :
    k <= Len(hist[2]) => hist[1][k] = hist[2][k]

\* both callers made two calls, the first of which returned a password
C9_Witness ==
  /\ Len(hist[1]) = 2
  /\ Len(hist[2]) = 2
  /\ hist[1][1].err = Nil
  /\ hist[1][1].res # Empty
  /\ hist[2][2].pos > 0

\* every character of the alphabet is one byte long
OneByteChars(s) == \A k \in 1..Len(s) : s[k] < 128

\* the calls whose postconditions hold when run alone
Regular(c, g) ==
  /\ c.numDigits >= 0
  /\ c.numSymbols >= 0
  /\ OneByteChars(g.lowerLetters) /\ OneByteChars(g.upperLetters)
  /\ OneByteChars(g.digits) /\ OneByteChars(g.symbols)

\* what Generate is to deliver for the call c on the generator g
Postconditions(s, c, g) ==
  /\ NumChars(s) = c.length
  /\ Composition(s, c, g)
  /\ ~c.allowRepeat => NoRepeat(s)

(***************************************************************************)
(* C10.  Under every interleaving of the calls of callers that share a     *)
(* generator: the alphabets and the source handle of the generator stay    *)
(* as construction set them; every byte of a caller's result was put there *)
(* by that caller's own call; and a call that returns a password meets the *)
(* postconditions a call run alone meets (non-negative counts, alphabets   *)
(* of one-byte characters): exactly `length` characters, the composition   *)
(* by class, and no repeated character when allowRepeat = false.           *)
(***************************************************************************)
C10_NoInterference ==
  /\ \A g \in GenIds : gens[g] = NewStatefulGenerator(input[g])
  /\ \A p \in Callers : BagOf(result[p]) = own[p]
  /\ \A p \in Callers :
       (Done(p) /\ ret[p].err = Nil /\ Regular(call[p], gens[call[p].g])) =>
         Postconditions(ret[p].res, call[p], gens[call[p].g])

\* the first caller returned a password while the second is in the middle
\* of building one
C10_Witness ==
  /\ Done(1) /\ ret[1].err = Nil /\ ret[1].res # Empty
  /\ Regular(call[1], gens[call[1].g])
  /\ ~call[1].allowRepeat
  /\ pc[2] = "insert" /\ result[2] # Empty

\* the alphabet of a generator for the override v: v, or the built-in
\* alphabet when v is empty
Chosen(v, builtin) == IF v = Empty THEN builtin ELSE v

(***************************************************************************)
(* C11.  Construction returns no error and, for every input (the nil input *)
(* included), a generator each of whose four alphabets is the override     *)
(* when that is non-empty and the built-in alphabet when it is empty or    *)
(* absent, and whose source is the override or rand.Reader when absent.    *)
(* So every alphabet of a generator is non-empty: a draw of an element is  *)
(* never made from an empty alphabet, and no call panics in rand.Int.      *)
(***************************************************************************)
C11_Construction ==
  /\ \A g \in GenIds :
       /\ NewStatefulGeneratorErr(input[g]) = Nil
       /\ input[g] = NilInput =>
            /\ gens[g].lowerLetters = LowerLetters
            /\ gens[g].upperLetters = UpperLetters
            /\ gens[g].digits = Digits
            /\ gens[g].symbols = Symbols
            /\ gens[g].reader = RandReader
       /\ \A x \in input[g] :
            /\ gens[g].lowerLetters = Chosen(x.LowerLetters, LowerLetters)
            /\ gens[g].upperLetters = Chosen(x.UpperLetters, UpperLetters)
            /\ gens[g].digits = Chosen(x.Digits, Digits)
            /\ gens[g].symbols = Chosen(x.Symbols, Symbols)
            /\ gens[g].reader = IF x.Reader = NoReader THEN RandReader ELSE x.Reader
       /\ Len(gens[g].lowerLetters) > 0
       /\ Len(gens[g].upperLetters) > 0
       /\ Len(gens[g].digits) > 0
       /\ Len(gens[g].symbols) > 0
  /\ \A p \in Callers :
       /\ pc[p] # "panicked"
       /\ pc[p] = "element" => Len(PhaseAlphabet(p, phase[p])) > 0

\* a generator made with the lowercase letters overridden only returned a
\* password with a letter of the override and a symbol of the built-in
\* symbols
C11_Witness ==
  \E p \in Callers :
    /\ Succeeded(p, "Generate")
    /\ input[call[p].g] = AccentInput(1)
    /\ gens[call[p].g].symbols = Symbols
    /\ call[p].numSymbols = 1
    /\ Chars(call[p]) = 1
    /\ NumChars(ret[p].res) >= 2

\* the call is made on a generator of the built-in alphabets, repeats are
\* not allowed, and the checks before the check of the symbols pass
DefaultSymbolsCheck(p) ==
  /\ Checked(p)
  /\ input[call[p].g] \in { NilInput, DefaultInput(1) }
  /\ ~call[p].allowRepeat
  /\ Chars(call[p]) >= 0
  /\ Chars(call[p]) <= (IF call[p].includeUpper THEN 52 ELSE 26)
  /\ call[p].numDigits <= 10

\* the characters of the string, one byte each and each once, are the
\* characters of the set
DistinctCharsOf(s, set) ==
  /\ OneByteChars(s)
  /\ Len(s) = Cardinality(set)
  /\ { s[k] : k \in 1..Len(s) } = set

\* the string is n characters of the set, one byte each, no two the same
DistinctCharsIn(s, n, set) ==
  /\ OneByteChars(s)
  /\ Len(s) = n
  /\ Cardinality({ s[k] : k \in 1..Len(s) }) = n
  /\ { s[k] : k \in 1..Len(s) } \subseteq set

\* the punctuation characters of ASCII
Punctuation == (33..47) \cup (58..64) \cup (91..96) \cup (123..126)

\* the built-in lowercase, uppercase and digits alphabets of a generator
\* made with no override: a-z, A-Z, 0-9
DefaultLettersAndDigits ==
  \A g \in GenIds :
    input[g] \in { NilInput, DefaultInput(1) } =>
      /\ DistinctCharsOf(gens[g].lowerLetters, 97..122)
      /\ DistinctCharsOf(gens[g].upperLetters, 65..90)
      /\ DistinctCharsOf(gens[g].digits, 48..57)

(***************************************************************************)
(* C12 as stated.  The built-in alphabets are a-z, A-Z, 0-9 and 32         *)
(* distinct punctuation characters; on the default configuration, with     *)
(* allowRepeat = false and the earlier checks passing,                     *)
(* ErrSymbolsExceedsAvailable is returned exactly when numSymbols exceeds  *)
(* 32.                                                                     *)
(* Violated: the built-in symbols are 30 characters, and Generate(52, 0,   *)
(* 31, true, false) returns ErrSymbolsExceedsAvailable.                    *)
(***************************************************************************)
C12_ThirtyTwoSymbols ==
  \A p \in Callers :
    DefaultSymbolsCheck(p) =>
      /\ DefaultLettersAndDigits
      /\ DistinctCharsIn(gens[call[p].g].symbols, 32, Punctuation)
      /\ (CheckError(p) = ErrSymbolsExceedsAvailable) <=> (call[p].numSymbols > 32)

(***************************************************************************)
(* C12, amended.  The built-in alphabets are the 26 letters a-z, the 26    *)
(* letters A-Z, the 10 digits 0-9 and 30 distinct punctuation characters   *)
(* (all of ASCII's but the apostrophe and the semicolon); on the default   *)
(* configuration, with allowRepeat = false and the earlier checks passing, *)
(* ErrSymbolsExceedsAvailable is returned exactly when numSymbols exceeds  *)
(* 30.                                                                     *)
(***************************************************************************)
C12_ThirtySymbols ==
  /\ DefaultLettersAndDigits
  /\ \A g \in GenIds :
       input[g] \in { NilInput, DefaultInput(1) } =>
         /\ DistinctCharsIn(gens[g].symbols, 30, Punctuation)
         /\ DistinctCharsOf(gens[g].symbols, Punctuation \ {39, 59})
  /\ \A p \in Callers :
       DefaultSymbolsCheck(p) =>
         ((CheckError(p) = ErrSymbolsExceedsAvailable) <=> (call[p].numSymbols > 30))

\* the call of the test with 31 symbols returned the error on the generator
\* of the nil input
C12_Witness ==
  \E p \in Callers :
    /\ Done(p)
    /\ input[call[p].g] = NilInput
    /\ call[p] = Generate(call[p].g, 52, 0, 31, TRUE, FALSE)
    /\ ret[p] = Outcome(Empty, ErrSymbolsExceedsAvailable)

\* the call of p runs a loop of Generate without repeats on a source that
\* never fails
DrawsWithoutRepeat(p) ==
  /\ pc[p] \in {"element", "insert"}
  /\ ~call[p].allowRepeat
  /\ readers[gens[call[p].g].reader].kind = "rand"

\* the alphabet of the loop holds a character that is not in the result
FreeCharacter(p) ==
  LET s == PhaseAlphabet(p, phase[p]) IN
  \E k \in 1..Len(s) : ~Contains(result[p], ByteToString(s[k]))

(***************************************************************************)
(* C13.  With a source that never fails and is fair, a Generate call with  *)
(* allowRepeat = false that passed the checks has, in every state of its   *)
(* loops, a character of the loop's alphabet that is not yet in the        *)
(* result, and it returns in the end, whatever generator construction      *)
(* produced, custom alphabets included.                                    *)
(* Violated: the checks compare the counts with the byte lengths of the    *)
(* alphabets, not with the characters still free.  With the lowercase      *)
(* letters "aab", Generate(3, 0, 0, false, false) passes the checks and    *)
(* inserts "a" and "b"; no letter is free then, every draw is rejected,    *)
(* and the call never returns.                                             *)
(***************************************************************************)
C13_Terminates ==
  /\ [](\A p \in Callers :
          (DrawsWithoutRepeat(p) /\ pc[p] = "element") => FreeCharacter(p))
  /\ \A p \in Callers : [](DrawsWithoutRepeat(p) => <>(pc[p] = "returned"))

\* the call is GenerateWithPolicy on the built-in alphabets with a source
\* that never fails, it asks for a symbol and for no symbols, and its
\* arguments pass the checks
UnsatisfiablePolicy(p) ==
  LET c == call[p] IN
  /\ c.op = "GenerateWithPolicy"
  /\ c.needsSymbol
  /\ c.numSymbols = 0
  /\ input[c.g] = NilInput
  /\ readers[gens[c.g].reader].kind = "rand"
  /\ Chars(c) >= 0
  /\ c.allowRepeat \/
       (Chars(c) <= (IF c.includeUpper THEN 52 ELSE 26) /\ c.numDigits <= 10)

\* the string is made of ASCII letters and digits only
LettersAndDigitsOnly(s) ==
  \A k \in 1..NumChars(s) :
    Runes(s)[k] \in LowerClass \cup UpperClass \cup DigitClass

(***************************************************************************)
(* C14.  GenerateWithPolicy on the built-in alphabets with a source that   *)
(* never fails, called with needsSymbol = true and numSymbols = 0 and      *)
(* arguments that pass the checks, never returns: every attempt of         *)
(* Generate ends with a string of letters and digits only and no error,    *)
(* the string is discarded and a new attempt starts, for ever.             *)
(***************************************************************************)
C14_NeverReturns ==
  /\ [](\A p \in Callers :
          UnsatisfiablePolicy(p) =>
            /\ pc[p] \notin {"done", "panicked"}
            /\ ret[p] = NoReturn
            /\ pc[p] = "returned" =>
                 (genRet[p].err = Nil /\ LettersAndDigitsOnly(genRet[p].res)))
  /\ \A p \in Callers :
       []((UnsatisfiablePolicy(p) /\ pc[p] = "enter") => <>(pc[p] = "returned"))
  /\ \A p \in Callers :
       []((UnsatisfiablePolicy(p) /\ pc[p] = "returned") => <>(pc[p] = "enter"))

\* a new attempt starts after an attempt that drew from the source
C14_Witness ==
  \E p \in Callers :
    /\ UnsatisfiablePolicy(p)
    /\ pc[p] = "enter"
    /\ consumed[p]
    /\ genRet[p].err = Nil
    /\ genRet[p].res # Empty

=============================================================================
